---- MODULE Spec2Model ----
(***************************************************************************)
(* Model of the JumpData analysis service.                                 *)
(*                                                                         *)
(*   start_analysis   (app.py)          the guarded start transition       *)
(*   run_analysis     (analysis.py)     the background worker: planner,    *)
(*                                      task loop, terminal status         *)
(*   get_results, save_to_csv (app.py)  the readers of the captured result *)
(*   save_analysis_to_csv (data_access.py)  the upsert into the two tables *)
(*                                                                         *)
(* Python values are encoded as follows.  An optional value (None or v) is *)
(* the sequence <<>> or <<v>>.  A dict key that a result does not carry    *)
(* (withTrendWord, trendWords, isTrendIndividual) is stored with the       *)
(* default every reader passes to .get().  A progress message is a record  *)
(* [kind, name, note] standing for the formatted string.                   *)
(***************************************************************************)
EXTENDS Integers, Sequences, FiniteSets, TLC

\* ------------------------------------------------------------------ bounds
MaxReq    == 2      \* start requests issued in one behaviour
MaxWorks  == 2      \* entries of a request's work list
MaxTrends == 2      \* entries of a request's trend-word list
MaxPoints == 2      \* points of a fetched series

\* ------------------------------------------------------------------ values
None == <<>>
Some(v) == <<v>>

Names == {"A", "B"}

\* Python's str.strip() on the words the model feeds in.
Strip(w) ==
    CASE w = " "  -> ""
      [] w = "X " -> "X"
      [] OTHER    -> w

RECURSIVE JoinWords(_)
JoinWords(l) ==
    IF Len(l) = 1 THEN l[1] ELSE l[1] \o " " \o JoinWords(Tail(l))

\* utils.build_query_from_list
build_query_from_list(query_list) ==
    IF query_list = <<>> THEN ""
    ELSE IF Len(query_list) = 1 THEN query_list[1]
    ELSE "(" \o JoinWords(query_list) \o ")"

\* x in list
InList(x, l) == \E i \in 1..Len(l) : l[i] = x

RECURSIVE Flatten(_)
Flatten(ll) == IF ll = <<>> THEN <<>> ELSE Head(ll) \o Flatten(Tail(ll))

RECURSIVE SumSeq(_)
SumSeq(l) == IF l = <<>> THEN 0 ELSE Head(l) + SumSeq(Tail(l))

\* ------------------------------------------------------------------ config
\* config.py is not part of the sources: one default work and a default issue.
QUERY_DICT == << [name |-> "A", query |-> "A", isTrend |-> FALSE] >>
REFERENCE_ISSUE_NUMBER == 1

\* issue_date_mapping.csv as load_issue_date_mapping returns it: the issue
\* numbers that have a date.
issue_date_mapping == {1, 2}

\* data_access.get_date_from_issue_number: the date, or None.
get_date_always_found(issue_number) == Some(issue_number)
get_date_from_issue_number(issue_number) ==
    IF issue_number \in issue_date_mapping THEN Some(issue_number) ELSE None

\* ------------------------------------------------------------------ RunState
Msg(kind, name, note) == [kind |-> kind, name |-> name, note |-> note]

MsgIdle      == Msg("", "", "")
MsgInit      == Msg("init", "", "")              \* "初期化中..."
MsgDone      == Msg("done", "", "")              \* "解析完了"
MsgError(e)  == Msg("error", "", e)              \* "エラー: " + str(e)

\* The module-level initial value of analysis_progress.
IdleProgress == [current |-> 0, total |-> 0, status |-> "idle", message |-> MsgIdle]

\* The dict start_analysis (and reset_analysis_progress) installs.
RunningProgress ==
    [current |-> 0, total |-> 0, status |-> "running", message |-> MsgInit]

\* The value start_analysis gives analysis_results.
ResetResultsKept == Some(<<>>)
ResetResults == None

\* The test start_analysis makes under the lock.
IsRunningNever(progress) == FALSE
IsRunning(progress) == progress.status = "running"

\* Lock.acquire succeeds only on a free lock.
LockFreeAlways(lock) == TRUE
LockFree(lock) == lock = 0

\* ------------------------------------------------------------------ planner
\* query_dict / trend_flags: a dict comprehension keeps the first position
\* of a key and the last value written for it.
DictKeys(queries) ==
    LET F[i \in 0..Len(queries)] ==
            IF i = 0 THEN <<>>
            ELSE IF \E j \in 1..(i - 1) : queries[j].name = queries[i].name
                 THEN F[i - 1]
                 ELSE Append(F[i - 1], queries[i].name)
    IN F[Len(queries)]

DictGet(queries, name) ==
    LET last == CHOOSE i \in 1..Len(queries) :
                    /\ queries[i].name = name
                    /\ \A j \in (i + 1)..Len(queries) : queries[j].name # name
    IN queries[last]

\* trend_map.get(display_name, []): the stripped non-empty words given for
\* the work, in the order supplied.
TrendsOf(trend_words_data, display_name) ==
    LET mine(t) == t.workName = display_name /\ t.workName # "" /\ Strip(t.word) # ""
        word(t) == Strip(t.word)
        kept == SelectSeq(trend_words_data, mine)
    IN [i \in 1..Len(kept) |-> word(kept[i])]

\* original_queries.get(display_name, [query_dict[display_name]])
\* (original_queries maps every name to None, for a key the dict lacks, or to
\* the list it holds)
OriginalElements(original_queries, queries, display_name) ==
    IF original_queries[display_name] # None
    THEN original_queries[display_name][1]
    ELSE << DictGet(queries, display_name).query >>

\* [t for t in trends if t not in original_query_elements]
NewTrendsUnfiltered(trends, original_query_elements) == trends
NewTrends(trends, original_query_elements) ==
    LET fresh(t) == ~InList(t, original_query_elements)
    IN SelectSeq(trends, fresh)

\* One pass of the counting loop.
WorkTaskCountFlat(queries, trend_words_data, original_queries, display_name) ==
    IF TrendsOf(trend_words_data, display_name) # <<>> THEN 2 ELSE 1
WorkTaskCount(queries, trend_words_data, original_queries, display_name) ==
    IF DictGet(queries, display_name).isTrend THEN 1
    ELSE LET trends == TrendsOf(trend_words_data, display_name)
             orig   == OriginalElements(original_queries, queries, display_name)
             new_trends == NewTrends(trends, orig)
         IN IF trends # <<>>
            THEN IF new_trends # <<>> THEN 2 + Len(trends) ELSE 1 + Len(trends)
            ELSE 1

\* total_tasks
TotalTasks(queries, trend_words_data, original_queries) ==
    LET count(n) == WorkTaskCount(queries, trend_words_data, original_queries, n)
        names == DictKeys(queries)
    IN SumSeq([i \in 1..Len(names) |-> count(names[i])])

Task(name, query, isTrend, withTrendWord, trendWords, isTrendIndividual, note) ==
    [name |-> name, query |-> query, isTrend |-> isTrend,
     withTrendWord |-> withTrendWord, trendWords |-> trendWords,
     isTrendIndividual |-> isTrendIndividual, note |-> note]

\* The analyze_word calls one pass of the execution loop makes, in order,
\* each with the tags its result is given.
WorkTasksOnce(queries, trend_words_data, original_queries, display_name) ==
    << Task(display_name, DictGet(queries, display_name).query,
            DictGet(queries, display_name).isTrend, FALSE, <<>>, FALSE, "") >>
WorkTasksTrendsFirst(queries, trend_words_data, original_queries, display_name) ==
    LET q == DictGet(queries, display_name)
        trends == TrendsOf(trend_words_data, display_name)
        orig   == OriginalElements(original_queries, queries, display_name)
        new_trends == NewTrends(trends, orig)
        single(w) == Task(display_name, build_query_from_list(<<w>>), FALSE, TRUE,
                          <<w>>, TRUE, w)
    IN IF q.isTrend
       THEN << Task(display_name, q.query, TRUE, FALSE, <<>>, FALSE, "") >>
       ELSE IF trends # <<>>
            THEN [i \in 1..Len(trends) |-> single(trends[i])]
                 \o (IF new_trends # <<>>
                     THEN << Task(display_name, build_query_from_list(orig), FALSE,
                                  FALSE, <<>>, FALSE, "original"),
                             Task(display_name, q.query, FALSE, TRUE, new_trends,
                                  FALSE, "with trend") >>
                     ELSE << Task(display_name, q.query, FALSE, TRUE, trends,
                                  FALSE, "") >>)
            ELSE << Task(display_name, q.query, FALSE, FALSE, <<>>, FALSE, "") >>
WorkTasks(queries, trend_words_data, original_queries, display_name) ==
    LET q == DictGet(queries, display_name)
        trends == TrendsOf(trend_words_data, display_name)
        orig   == OriginalElements(original_queries, queries, display_name)
        new_trends == NewTrends(trends, orig)
        single(w) == Task(display_name, build_query_from_list(<<w>>), FALSE, TRUE,
                          <<w>>, TRUE, w)
    IN IF q.isTrend
       THEN << Task(display_name, q.query, TRUE, FALSE, <<>>, FALSE, "") >>
       ELSE IF trends # <<>>
            THEN (IF new_trends # <<>>
                  THEN << Task(display_name, build_query_from_list(orig), FALSE,
                               FALSE, <<>>, FALSE, "original"),
                          Task(display_name, q.query, FALSE, TRUE, new_trends,
                               FALSE, "with trend") >>
                  ELSE << Task(display_name, q.query, FALSE, TRUE, trends,
                               FALSE, "") >>)
                 \o [i \in 1..Len(trends) |-> single(trends[i])]
            ELSE << Task(display_name, q.query, FALSE, FALSE, <<>>, FALSE, "") >>

\* The whole execution loop.
RunTasks(queries, trend_words_data, original_queries) ==
    LET tasks(n) == WorkTasks(queries, trend_words_data, original_queries, n)
        names == DictKeys(queries)
    IN Flatten([i \in 1..Len(names) |-> tasks(names[i])])

\* ------------------------------------------------------------------ analyze_word
\* Instants are minutes.  A point of a fetched series is its from_date and
\* its count; a fetch that fails, or finds nothing, returns the empty list.
Point(from_date, count) == [from_date |-> from_date, count |-> count]

\* Metrics are carried in twelfths, so that the mean of one to four integer
\* counts is an integer.
Scale == 12

\* timedelta(minutes=int(interval_hour * 60))
INTERVAL_MINUTES == 15

\* int(interval_hour * 60), for an interval given in seconds: the minutes
\* that timedelta(minutes=...) adds.
interval_minutes_of(interval_seconds) == interval_seconds \div 60

\* reference_times, as minutes before reference_base_datetime.
ReferenceOffsets == << 60, 45, 30, 15 >>

\* format_datetime
format_datetime(dt) == ToString(dt)

\* ref_row['count'].iloc[0] of the rows with from_date == ref_time
FirstCountAt(series, ref_time) ==
    LET hits == {i \in 1..Len(series) : series[i].from_date = ref_time}
    IN series[CHOOSE i \in hits : \A j \in hits : i <= j].count

\* reference_counts
reference_counts(series, reference_base_datetime) ==
    LET found(o) == \E i \in 1..Len(series) :
                        series[i].from_date = reference_base_datetime - o
        offsets == SelectSeq(ReferenceOffsets, found)
    IN [i \in 1..Len(offsets) |->
            FirstCountAt(series, reference_base_datetime - offsets[i])]

\* reference_count (in twelfths): np.mean(reference_counts), or 0
reference_count_of_four(series, reference_base_datetime) ==
    LET counts == reference_counts(series, reference_base_datetime)
    IN IF counts # <<>> THEN (Scale * SumSeq(counts)) \div 4 ELSE 0
reference_count(series, reference_base_datetime) ==
    LET counts == reference_counts(series, reference_base_datetime)
    IN IF counts # <<>> THEN (Scale * SumSeq(counts)) \div Len(counts) ELSE 0

\* df_sum_calculation
df_sum_calculation_whole(series, reference_base_datetime) ==
    series
df_sum_calculation(series, reference_base_datetime) ==
    LET tail(p) == p.from_date >= reference_base_datetime
    IN SelectSeq(series, tail)

\* df[df['count'] <= reference_count]
AtOrBelowStrict(rows, ref) ==
    LET low(p) == Scale * p.count < ref IN SelectSeq(rows, low)
AtOrBelow(rows, ref) ==
    LET low(p) == Scale * p.count <= ref IN SelectSeq(rows, low)

MinDate(rows) ==
    CHOOSE t \in {rows[i].from_date : i \in 1..Len(rows)} :
        \A i \in 1..Len(rows) : t <= rows[i].from_date
MaxDateFirst(rows) ==
    rows[1].from_date
MaxDate(rows) ==
    CHOOSE t \in {rows[i].from_date : i \in 1..Len(rows)} :
        \A i \in 1..Len(rows) : t >= rows[i].from_date

\* actual_sum_end_datetime: None, or the instant the full sum stops before.
actual_sum_end_datetime_natural(series, reference_base_datetime, ref, interval_minutes) ==
    LET df == df_sum_calculation(series, reference_base_datetime)
        natural_end_candidates == AtOrBelow(df, ref)
    IN IF df = <<>> THEN None
       ELSE IF natural_end_candidates = <<>> THEN Some(MaxDate(df) + interval_minutes)
       ELSE Some(MinDate(natural_end_candidates))
actual_sum_end_datetime(series, reference_base_datetime, ref, interval_minutes) ==
    LET df == df_sum_calculation(series, reference_base_datetime)
        min_sum_duration_end_time == reference_base_datetime + 60
        natural_end_candidates == AtOrBelow(df, ref)
        extended == Some(MaxDate(df) + interval_minutes)
        late(p) == p.from_date >= min_sum_duration_end_time
        df_after_min_duration == SelectSeq(df, late)
        re_drop_candidates == AtOrBelow(df_after_min_duration, ref)
    IN IF df = <<>> THEN None
       ELSE IF natural_end_candidates = <<>> THEN extended
       ELSE IF MinDate(natural_end_candidates) < min_sum_duration_end_time
            THEN IF df_after_min_duration # <<>>
                 THEN IF re_drop_candidates # <<>>
                      THEN Some(MinDate(re_drop_candidates))
                      ELSE extended
                 ELSE extended
            ELSE Some(MinDate(natural_end_candidates))

\* df.apply(lambda row: max(0, row['count'] - reference_count)).sum(), 0 for
\* an empty frame (in twelfths)
ExcessSumRaw(rows, ref) ==
    SumSeq([i \in 1..Len(rows) |-> Scale * rows[i].count - ref])
ExcessSum(rows, ref) ==
    LET excess(p) == IF Scale * p.count > ref THEN Scale * p.count - ref ELSE 0
    IN SumSeq([i \in 1..Len(rows) |-> excess(rows[i])])

\* df_one_hour_range
df_one_hour_range_all(series, reference_base_datetime) ==
    LET early(p) == p.from_date < reference_base_datetime + 60
    IN SelectSeq(series, early)
df_one_hour_range(series, reference_base_datetime) ==
    LET early(p) == p.from_date < reference_base_datetime + 60
    IN SelectSeq(df_sum_calculation(series, reference_base_datetime), early)

\* df_sum_range
df_sum_range(series, reference_base_datetime, end) ==
    LET before(p) == p.from_date < end[1]
    IN IF end # None
       THEN SelectSeq(df_sum_calculation(series, reference_base_datetime), before)
       ELSE <<>>

\* df_after_one_hour_range
df_after_one_hour_range(series, reference_base_datetime, end) ==
    LET between(p) == /\ p.from_date >= reference_base_datetime + 60
                      /\ p.from_date < end[1]
    IN IF end # None /\ end[1] > reference_base_datetime + 60
       THEN SelectSeq(df_sum_calculation(series, reference_base_datetime), between)
       ELSE <<>>

\* {'x': format_datetime(row['from_date']), 'y': int(row['count'])}
ChartPoint(p) == [x |-> format_datetime(p.from_date), y |-> p.count]

\* The rows of a range that the display lists keep.
AboveReferenceAll(rows, ref) ==
    [i \in 1..Len(rows) |-> ChartPoint(rows[i])]
AboveReference(rows, ref) ==
    LET high(p) == Scale * p.count > ref
        kept == SelectSeq(rows, high)
    IN [i \in 1..Len(kept) |-> ChartPoint(kept[i])]

\* The dict analyze_word returns when the fetch is empty (the three display
\* keys are absent from it; they are held here as empty lists).
NoDataResultZeroed(display_name, query_string) ==
    [name |-> display_name, query |-> query_string, ref |-> Some(0),
     one_hour |-> Some(0), full |-> Some(0), end_time |-> "nodata",
     chart_data |-> <<>>, one_hour_range_data |-> <<>>,
     after_one_hour_range_data |-> <<>>]
NoDataResult(display_name, query_string) ==
    [name |-> display_name, query |-> query_string, ref |-> None,
     one_hour |-> None, full |-> None, end_time |-> "nodata",
     chart_data |-> <<>>, one_hour_range_data |-> <<>>,
     after_one_hour_range_data |-> <<>>]

\* analysis.analyze_word on the series the gateway returned.
analyze_word(display_name, query_string, series, reference_base_datetime) ==
    LET ref == reference_count(series, reference_base_datetime)
        end == actual_sum_end_datetime(series, reference_base_datetime, ref,
                                       INTERVAL_MINUTES)
    IN IF series = <<>> THEN NoDataResult(display_name, query_string)
       ELSE [name |-> display_name, query |-> query_string,
             ref |-> Some(ref),
             one_hour |-> Some(ExcessSum(df_one_hour_range(series,
                                            reference_base_datetime), ref)),
             full |-> Some(ExcessSum(df_sum_range(series, reference_base_datetime,
                                                  end), ref)),
             end_time |-> IF end # None THEN format_datetime(end[1]) ELSE "nodata",
             chart_data |-> [i \in 1..Len(series) |-> ChartPoint(series[i])],
             one_hour_range_data |->
                 AboveReference(df_one_hour_range(series, reference_base_datetime), ref),
             after_one_hour_range_data |->
                 AboveReference(df_after_one_hour_range(series,
                                    reference_base_datetime, end), ref)]

\* A series with a reference point, a burst at the reference instant and a
\* drop to the baseline an hour later (for the issue whose date is minute 1).
SeriesOne == << Point(-14, 1), Point(1, 2), Point(61, 1) >>

\* What one fetch can return in the specifications of the run.
FetchOutcomes == {<<>>, SeriesOne}

\* The result record of analyze_word, tagged by the caller.
Result(task, outcome, reference_base_datetime) ==
    analyze_word(task.name, task.query, outcome, reference_base_datetime)
    @@ [isTrend |-> task.isTrend, withTrendWord |-> task.withTrendWord,
        trendWords |-> task.trendWords, isTrendIndividual |-> task.isTrendIndividual]

\* ------------------------------------------------------------------ tables
\* A persisted table: its rows in file order, or content read_csv cannot
\* parse.  A file that is absent or empty reads as no rows.
Table(rows) == [readable |-> TRUE, rows |-> rows]
Unreadable == [readable |-> FALSE, rows |-> <<>>]

\* "x if x is not None else 0"
NoneToZero(v) == IF v = None THEN 0 ELSE v[1]

\* Order of the display names under sort_values.
NameRank(n) == CASE n = "A" -> 1 [] n = "B" -> 2 [] OTHER -> 0

WorkKey(row) == << row.issue, row.name, row.withTrend >>
TrendKey(row) == << row.issue, row.name >>

\* sort_values(by=[号数, 作品名, トレンド含む]), ascending
WorkLess(a, b) ==
    \/ a.issue < b.issue
    \/ a.issue = b.issue /\ NameRank(a.name) < NameRank(b.name)
    \/ a.issue = b.issue /\ a.name = b.name /\ ~a.withTrend /\ b.withTrend

\* sort_values(by=[号数, 作品名]), ascending
TrendLess(a, b) ==
    \/ a.issue < b.issue
    \/ a.issue = b.issue /\ NameRank(a.name) < NameRank(b.name)

\* sort_values is stable on several columns: a row goes after every row
\* already placed that is not greater than it.
InsertWorkRow(sorted, row) ==
    LET after == {i \in 1..Len(sorted) : ~WorkLess(row, sorted[i])}
        k == IF after = {} THEN 0 ELSE CHOOSE i \in after : \A j \in after : j <= i
    IN SubSeq(sorted, 1, k) \o << row >> \o SubSeq(sorted, k + 1, Len(sorted))

SortWorkRows(rows) ==
    LET F[i \in 0..Len(rows)] ==
            IF i = 0 THEN <<>> ELSE InsertWorkRow(F[i - 1], rows[i])
    IN F[Len(rows)]

InsertTrendRow(sorted, row) ==
    LET after == {i \in 1..Len(sorted) : ~TrendLess(row, sorted[i])}
        k == IF after = {} THEN 0 ELSE CHOOSE i \in after : \A j \in after : j <= i
    IN SubSeq(sorted, 1, k) \o << row >> \o SubSeq(sorted, k + 1, Len(sorted))

SortTrendRows(rows) ==
    LET F[i \in 0..Len(rows)] ==
            IF i = 0 THEN <<>> ELSE InsertTrendRow(F[i - 1], rows[i])
    IN F[Len(rows)]

\* keys_to_remove of each table.
WorkKeys(rows) == {WorkKey(rows[i]) : i \in 1..Len(rows)}
TrendKeys(rows) == {TrendKey(rows[i]) : i \in 1..Len(rows)}

\* The rows of a readable existing table that survive the composite-key
\* removal.
KeptWorkRowsAll(rows, new_rows) == rows
KeptWorkRows(rows, new_rows) ==
    LET keys_to_remove == WorkKeys(new_rows)
        keep(r) == WorkKey(r) \notin keys_to_remove
    IN SelectSeq(rows, keep)

KeptTrendRows(rows, new_rows) ==
    LET keys_to_remove == TrendKeys(new_rows)
        keep(r) == TrendKey(r) \notin keys_to_remove
    IN SelectSeq(rows, keep)

\* new_rows of the work-summary table.
NewWorkRows(results, issue_number) ==
    LET wanted(r) == ~(r.isTrend \/ r.isTrendIndividual)
        row(r) == [issue |-> issue_number, name |-> r.name,
                   withTrend |-> r.withTrendWord, query |-> r.query,
                   ref |-> NoneToZero(r.ref), one_hour |-> NoneToZero(r.one_hour),
                   full |-> NoneToZero(r.full), end_time |-> r.end_time]
        kept == SelectSeq(results, wanted)
    IN [i \in 1..Len(kept) |-> row(kept[i])]

\* The work-summary table as the save leaves it.
SaveWorkTableOverwrite(table, results, issue_number) ==
    Table(SortWorkRows(NewWorkRows(results, issue_number)))
SaveWorkTableAbortsUnreadable(table, results, issue_number) ==
    IF table.readable
    THEN Table(SortWorkRows(KeptWorkRows(table.rows, NewWorkRows(results, issue_number))
                            \o NewWorkRows(results, issue_number)))
    ELSE table
SaveWorkTable(table, results, issue_number) ==
    LET new_rows == NewWorkRows(results, issue_number)
        existing == IF table.readable
                    THEN IF Len(new_rows) > 0
                         THEN KeptWorkRows(table.rows, new_rows)
                         ELSE table.rows
                    ELSE <<>>
    IN Table(SortWorkRows(existing \o new_rows))

\* The rank recorded for a trend word of a work: the first entry of the
\* work's rank list with that word, else ''.
RankOf(trend_words_data, work_name, trend_word) ==
    LET listed(t) == Strip(t.word) # "" /\ Strip(t.workName) # "" /\ t.workName = work_name
        rank_info_list == SelectSeq(trend_words_data, listed)
        hits == {i \in 1..Len(rank_info_list) : rank_info_list[i].word = trend_word}
    IN IF hits = {} THEN ""
       ELSE rank_info_list[CHOOSE i \in hits : \A j \in hits : i <= j].rank

\* trend_new_rows of the trend-summary table.
NewTrendRows(results, issue_number, trend_words_data) ==
    LET wanted(r) == r.isTrendIndividual /\ Len(r.trendWords) = 1
        row(r) == [issue |-> issue_number, name |-> r.name,
                   word |-> r.trendWords[1],
                   rank |-> RankOf(trend_words_data, r.name, r.trendWords[1]),
                   ref |-> NoneToZero(r.ref), one_hour |-> NoneToZero(r.one_hour),
                   full |-> NoneToZero(r.full), end_time |-> r.end_time]
        kept == SelectSeq(results, wanted)
    IN [i \in 1..Len(kept) |-> row(kept[i])]

\* The trend-summary table as the save leaves it.
SaveTrendTableAppend(table, results, issue_number, trend_words_data) ==
    Table(table.rows \o NewTrendRows(results, issue_number, trend_words_data))
SaveTrendTable(table, results, issue_number, trend_words_data) ==
    LET trend_new_rows == NewTrendRows(results, issue_number, trend_words_data)
        existing == IF table.readable
                    THEN KeptTrendRows(table.rows, trend_new_rows)
                    ELSE <<>>
    IN IF trend_words_data # <<>> /\ trend_new_rows # <<>>
       THEN Table(SortTrendRows(existing \o trend_new_rows))
       ELSE table

\* trend_saved_count
TrendSavedCount(results, issue_number, trend_words_data) ==
    IF trend_words_data # <<>>
    THEN Len(NewTrendRows(results, issue_number, trend_words_data))
    ELSE 0

\* ------------------------------------------------------------------ requests
NoOriginal == [n \in Names |-> None]

Work(name, query, isTrend) == [name |-> name, query |-> query, isTrend |-> isTrend]
Trend(word, workName, rank) == [word |-> word, workName |-> workName, rank |-> rank]

Body(queries, issue, trend_words, original_queries) ==
    [json |-> TRUE, wellformed |-> TRUE, queries |-> queries, issue |-> issue,
     trend_words |-> trend_words, original_queries |-> original_queries]

BodyPlain  == Body(<< Work("A", "A", FALSE) >>, 1, <<>>, NoOriginal)
BodyTrend  == Body(<< Work("A", "A", FALSE) >>, 1, << Trend("A", "A", "1") >>,
                   NoOriginal)
BodyAbsent == [BodyPlain EXCEPT !.issue = 3]
BodyBad    == [BodyPlain EXCEPT !.wellformed = FALSE]
BodyNoJson == [BodyPlain EXCEPT !.json = FALSE]

\* The request bodies of the concurrent specification.
Bodies == {BodyPlain, BodyTrend, BodyAbsent, BodyNoJson}

\* "if not queries: queries = [...QUERY_DICT...]"
EffectiveQueries(body) == IF body.queries = <<>> THEN QUERY_DICT ELSE body.queries

TasksOf(body) ==
    RunTasks(EffectiveQueries(body), body.trend_words, body.original_queries)

TotalOf(body) ==
    TotalTasks(EffectiveQueries(body), body.trend_words, body.original_queries)

\* ------------------------------------------------------------------ state
VARIABLES
    analysis_progress,   \* the RunState dict
    analysis_results,    \* None, or the captured result list
    analysis_lock,       \* 0 when free, else the request holding it
    req,                 \* the start requests: position, body, reply
    worker,              \* the thread each accepted request launches
    work_csv,            \* yahoo_word_analysis_summary.csv
    trend_csv,           \* yahoo_trend_analysis_summary.csv
    resp                 \* the last reply of get_results / save_to_csv

vars == << analysis_progress, analysis_results, analysis_lock, req, worker,
           work_csv, trend_csv, resp >>

Reqs == 1..MaxReq

NewReq == [pc |-> "new", body |-> BodyPlain, seen |-> "", reply |-> ""]
NoWorker == [pc |-> "none", idx |-> 0, summary |-> <<>>, err |-> "", calls |-> 0,
             fetched |-> <<>>]
NoResp == [op |-> "", code |-> 0, saved |-> 0, trend_saved |-> 0]

Init ==
    /\ analysis_progress = IdleProgress
    /\ analysis_results = None
    /\ analysis_lock = 0
    /\ req = [r \in Reqs |-> NewReq]
    /\ worker = [r \in Reqs |-> NoWorker]
    /\ work_csv = Table(<<>>)
    /\ trend_csv = Table(<<>>)
    /\ resp = NoResp

\* ------------------------------------------------------------------ start_analysis
\* A client posts /api/start_analysis and its handler enters
\* "with analysis_lock:".
Acquire(r, body) ==
    /\ req[r].pc = "new"
    /\ \A q \in Reqs : q < r => req[q].pc # "new"
    /\ LockFree(analysis_lock)
    /\ analysis_lock' = r
    /\ req' = [req EXCEPT ![r].pc = "check", ![r].body = body]
    /\ UNCHANGED << analysis_progress, analysis_results, worker, work_csv,
                    trend_csv, resp >>

\* The status test: a running status returns "Analysis already running",
\* 400, and leaves the with block.
Check(r) ==
    /\ req[r].pc = "check"
    /\ IF IsRunning(analysis_progress)
       THEN /\ req' = [req EXCEPT ![r].pc = "done", ![r].reply = "rejected",
                                  ![r].seen = analysis_progress.status]
            /\ analysis_lock' = 0
       ELSE /\ req' = [req EXCEPT ![r].pc = "reset_progress",
                                  ![r].seen = analysis_progress.status]
            /\ UNCHANGED analysis_lock
    /\ UNCHANGED << analysis_progress, analysis_results, worker, work_csv,
                    trend_csv, resp >>

\* analysis_progress = {...}
ResetProgress(r) ==
    /\ req[r].pc = "reset_progress"
    /\ analysis_progress' = RunningProgress
    /\ req' = [req EXCEPT ![r].pc = "reset_results"]
    /\ UNCHANGED << analysis_results, analysis_lock, worker, work_csv, trend_csv,
                    resp >>

\* analysis_results = None, and the end of the with block.
ResetResultsStep(r) ==
    /\ req[r].pc = "reset_results"
    /\ analysis_results' = ResetResults
    /\ analysis_lock' = 0
    /\ req' = [req EXCEPT ![r].pc = "spawn"]
    /\ UNCHANGED << analysis_progress, worker, work_csv, trend_csv, resp >>

\* The request is parsed and the thread started.  A request without a JSON
\* body fails in data.get and ends as a server error with no thread.
Launch(r) ==
    /\ req[r].pc = "spawn"
    /\ IF req[r].body.json
       THEN /\ worker' = [worker EXCEPT ![r] = [NoWorker EXCEPT !.pc = "setup"]]
            /\ req' = [req EXCEPT ![r].pc = "done", ![r].reply = "started"]
       ELSE /\ req' = [req EXCEPT ![r].pc = "done", ![r].reply = "error"]
            /\ UNCHANGED worker
    /\ UNCHANGED << analysis_progress, analysis_results, analysis_lock, work_csv,
                    trend_csv, resp >>

\* ------------------------------------------------------------------ run_analysis
\* The thread has returned: its locals are gone, what it raised is kept.
Finished(wk) == [NoWorker EXCEPT !.pc = "done", !.err = wk.err, !.calls = wk.calls]

WorkerFrame == << analysis_lock, req, work_csv, trend_csv, resp >>

\* Everything up to analysis_progress["total"] = total_tasks: the dicts, the
\* issue-to-date lookup, the trend map and the count.
Setup(w) ==
    LET body == req[w].body IN
    /\ worker[w].pc = "setup"
    /\ IF ~body.wellformed
       THEN /\ worker' = [worker EXCEPT ![w].pc = "except", ![w].err = "malformed"]
            /\ UNCHANGED analysis_progress
       ELSE IF get_date_from_issue_number(body.issue) = None
       THEN /\ worker' = [worker EXCEPT ![w].pc = "except", ![w].err = "absent"]
            /\ UNCHANGED analysis_progress
       ELSE /\ analysis_progress' = [analysis_progress EXCEPT !.total = TotalOf(body)]
            /\ worker' = [worker EXCEPT
                 ![w].pc = IF TasksOf(body) = <<>> THEN "publish" ELSE "current"]
    /\ UNCHANGED analysis_results
    /\ UNCHANGED WorkerFrame

\* current_task += 1; analysis_progress["current"] = current_task
SetCurrentAfterTask(w) ==
    /\ worker[w].pc = "current"
    /\ worker' = [worker EXCEPT ![w].pc = "message", ![w].idx = @ + 1]
    /\ analysis_progress' = [analysis_progress EXCEPT !.current = worker[w].idx]
    /\ UNCHANGED analysis_results
    /\ UNCHANGED WorkerFrame
SetCurrent(w) ==
    /\ worker[w].pc = "current"
    /\ worker' = [worker EXCEPT ![w].pc = "message", ![w].idx = @ + 1]
    /\ analysis_progress' = [analysis_progress EXCEPT !.current = worker[w].idx + 1]
    /\ UNCHANGED analysis_results
    /\ UNCHANGED WorkerFrame

\* analysis_progress["message"] = "処理中: ..."
SetMessage(w) ==
    LET task == TasksOf(req[w].body)[worker[w].idx] IN
    /\ worker[w].pc = "message"
    /\ worker' = [worker EXCEPT ![w].pc = "analyze"]
    /\ analysis_progress' =
         [analysis_progress EXCEPT !.message = Msg("processing", task.name, task.note)]
    /\ UNCHANGED analysis_results
    /\ UNCHANGED WorkerFrame

\* The global analysis_results after summary_data.append(result): summary_data
\* is a list of its own, so the global does not move.
ResultsDuringLoopAliased(results, summary) == Some(summary)
ResultsDuringLoop(results, summary) == results

\* analyze_word returns and the tagged result is appended to summary_data.
Analyze(w, outcome) ==
    LET tasks == TasksOf(req[w].body)
        task == tasks[worker[w].idx]
        result == Result(task, outcome, get_date_from_issue_number(req[w].body.issue)[1])
    IN
    /\ worker[w].pc = "analyze"
    /\ worker' = [worker EXCEPT
         ![w].pc = IF worker[w].idx = Len(tasks) THEN "publish" ELSE "current",
         ![w].summary = Append(@, result),
         ![w].calls = @ + 1,
         ![w].fetched = outcome]
    /\ analysis_results' =
         ResultsDuringLoop(analysis_results, Append(worker[w].summary, result))
    /\ UNCHANGED analysis_progress
    /\ UNCHANGED WorkerFrame

\* A fetched list that analyze_word cannot process: an entry without a
\* count.
Malformed == << Point(0, -1) >>

\* analyze_word raises on what the fetch returned.  The empty list is
\* returned for before any statement that can raise (lines 37-46).
AnalyzeRaises(w) ==
    /\ worker[w].pc = "analyze"
    /\ worker' = [worker EXCEPT ![w].pc = "except", ![w].err = "unexpected",
                                ![w].calls = @ + 1, ![w].fetched = Malformed]
    /\ UNCHANGED << analysis_progress, analysis_results >>
    /\ UNCHANGED WorkerFrame

\* analysis_results = summary_data (the list is from here on reached through
\* the global)
Publish(w) ==
    /\ worker[w].pc = "publish"
    /\ analysis_results' = Some(worker[w].summary)
    /\ worker' = [worker EXCEPT ![w].pc = "completed", ![w].summary = <<>>,
                                ![w].fetched = <<>>]
    /\ UNCHANGED analysis_progress
    /\ UNCHANGED WorkerFrame

\* analysis_progress["status"] = "completed"
SetCompleted(w) ==
    /\ worker[w].pc = "completed"
    /\ analysis_progress' = [analysis_progress EXCEPT !.status = "completed"]
    /\ worker' = [worker EXCEPT ![w].pc = "donemsg"]
    /\ UNCHANGED analysis_results
    /\ UNCHANGED WorkerFrame

\* analysis_progress["message"] = "解析完了"
SetDoneMessage(w) ==
    /\ worker[w].pc = "donemsg"
    /\ analysis_progress' = [analysis_progress EXCEPT !.message = MsgDone]
    /\ worker' = [worker EXCEPT ![w] = Finished(worker[w])]
    /\ UNCHANGED analysis_results
    /\ UNCHANGED WorkerFrame

\* except: analysis_progress["status"] = "error"
SetError(w) ==
    /\ worker[w].pc = "except"
    /\ analysis_progress' = [analysis_progress EXCEPT !.status = "error"]
    /\ worker' = [worker EXCEPT ![w].pc = "errmsg"]
    /\ UNCHANGED analysis_results
    /\ UNCHANGED WorkerFrame

\* except: analysis_progress["message"] = "エラー: ..."
SetErrorMessage(w) ==
    /\ worker[w].pc = "errmsg"
    /\ analysis_progress' = [analysis_progress EXCEPT !.message = MsgError(worker[w].err)]
    /\ worker' = [worker EXCEPT ![w] = Finished(worker[w])]
    /\ UNCHANGED analysis_results
    /\ UNCHANGED WorkerFrame

\* One call of analyze_word, on any of the lists the fetch can return.
AnalyzeStep(w, outcomes) ==
    worker[w].pc = "analyze" /\ \E outcome \in outcomes : Analyze(w, outcome)

WorkerStep(w, outcomes) ==
    \/ Setup(w)
    \/ SetCurrent(w)
    \/ SetMessage(w)
    \/ AnalyzeStep(w, outcomes)
    \/ AnalyzeRaises(w)
    \/ Publish(w)
    \/ SetCompleted(w)
    \/ SetDoneMessage(w)
    \/ SetError(w)
    \/ SetErrorMessage(w)

\* ------------------------------------------------------------------ readers
\* GET /api/results
GetResults ==
    /\ resp' = IF analysis_results = None
               THEN [NoResp EXCEPT !.op = "results", !.code = 404]
               ELSE [NoResp EXCEPT !.op = "results", !.code = 200,
                                   !.saved = Len(analysis_results[1])]
    /\ resp' # resp
    /\ UNCHANGED << analysis_progress, analysis_results, analysis_lock, req, worker,
                    work_csv, trend_csv >>

\* POST /api/save_to_csv
SaveToCsv(issue_number, trend_words_data) ==
    /\ IF analysis_results = None
       THEN /\ resp' = [NoResp EXCEPT !.op = "save", !.code = 404]
            /\ UNCHANGED << work_csv, trend_csv >>
       ELSE LET results == analysis_results[1] IN
            /\ work_csv' = SaveWorkTable(work_csv, results, issue_number)
            /\ trend_csv' = SaveTrendTable(trend_csv, results, issue_number,
                                           trend_words_data)
            /\ resp' = [op |-> "save", code |-> 200,
                        saved |-> Len(NewWorkRows(results, issue_number)),
                        trend_saved |-> TrendSavedCount(results, issue_number,
                                                        trend_words_data)]
    /\ << work_csv', trend_csv', resp' >> # << work_csv, trend_csv, resp >>
    /\ UNCHANGED << analysis_progress, analysis_results, analysis_lock, req, worker >>

\* ------------------------------------------------------------------ Spec
Next ==
    \/ \E r \in Reqs, body \in Bodies : Acquire(r, body)
    \/ \E r \in Reqs : Check(r)
    \/ \E r \in Reqs : ResetProgress(r)
    \/ \E r \in Reqs : ResetResultsStep(r)
    \/ \E r \in Reqs : Launch(r)
    \/ \E w \in Reqs : WorkerStep(w, FetchOutcomes)
    \/ GetResults
    \/ SaveToCsv(REFERENCE_ISSUE_NUMBER, BodyTrend.trend_words)

Spec == Init /\ [][Next]_vars

\* ------------------------------------------------------------------ SpecPlan
\* One run of run_analysis on every request body of the bounded input space:
\* the start has been accepted, the thread is about to run.
SeqsUpTo(S, n) == UNION {[1..k -> S] : k \in 0..n}

PlanWorks == {Work("A", "A", FALSE), Work("A", "(A X)", FALSE),
              Work("B", "B", FALSE), Work("B", "B", TRUE)}
PlanTrends == {Trend("A", "A", "1"), Trend("X", "A", "2"), Trend(" ", "A", "3"),
               Trend("X", "B", "1")}
PlanOriginals == {NoOriginal,
                  [NoOriginal EXCEPT !["A"] = Some(<< "A" >>)],
                  [NoOriginal EXCEPT !["A"] = Some(<< "A", "X" >>)]}
PlanIssues == {1, 3}

PlanBodies ==
    {Body(q, i, t, o) : q \in SeqsUpTo(PlanWorks, MaxWorks), i \in PlanIssues,
                        t \in SeqsUpTo(PlanTrends, MaxTrends), o \in PlanOriginals}
    \cup {BodyBad}

\* The state in which the thread of request 1 starts on a body.
Started(body) ==
    /\ analysis_progress = RunningProgress
    /\ analysis_results = None
    /\ analysis_lock = 0
    /\ req = [r \in Reqs |-> IF r = 1
                             THEN [pc |-> "done", body |-> body, seen |-> "idle",
                                   reply |-> "started"]
                             ELSE NewReq]
    /\ worker = [r \in Reqs |-> IF r = 1 THEN [NoWorker EXCEPT !.pc = "setup"]
                                ELSE NoWorker]
    /\ work_csv = Table(<<>>)
    /\ trend_csv = Table(<<>>)
    /\ resp = NoResp

InitPlan == \E body \in PlanBodies : Started(body)

\* The planner does not look at what a fetch returns.
PlanOutcomes == {SeriesOne}

NextPlan == \E w \in Reqs : WorkerStep(w, PlanOutcomes)

SpecPlan == InitPlan /\ [][NextPlan]_vars

\* ------------------------------------------------------------------ SpecRun
\* One run next to its readers: results queries and saves at every point of
\* the run.
BodyFour == Body(<< Work("A", "(A X)", FALSE) >>, 1,
                 << Trend("A", "A", "1"), Trend("X", "A", "2") >>,
                 [NoOriginal EXCEPT !["A"] = Some(<< "A" >>)])
BodyTwoWorks == Body(<< Work("A", "A", FALSE), Work("A", "(A X)", FALSE),
                        Work("B", "B", TRUE) >>, 1, <<>>, NoOriginal)

RunBodies == {BodyPlain, BodyTrend, BodyFour, BodyTwoWorks, BodyAbsent, BodyBad,
              Body(<<>>, 1, <<>>, NoOriginal)}

InitRun == \E body \in RunBodies : Started(body)

NextRun ==
    \/ \E w \in Reqs : WorkerStep(w, FetchOutcomes)
    \/ GetResults
    \/ SaveToCsv(REFERENCE_ISSUE_NUMBER, req[1].body.trend_words)

SpecRun == InitRun /\ [][NextRun]_vars

\* ------------------------------------------------------------------ SpecSave
\* Saves of completed result sets into tables with prior content.
RunResults(body, outcome) ==
    LET tasks == TasksOf(body)
    IN [i \in 1..Len(tasks) |->
            Result(tasks[i], outcome, get_date_from_issue_number(body.issue)[1])]

\* A run starts and runs to completion with no reader in between.
CompletedRun(body, outcome) ==
    LET results == RunResults(body, outcome) IN
    /\ analysis_results' = Some(results)
    /\ analysis_progress' = [current |-> Len(results), total |-> Len(results),
                             status |-> "completed", message |-> MsgDone]
    /\ analysis_results' # analysis_results
    /\ UNCHANGED << analysis_lock, req, worker, work_csv, trend_csv, resp >>

BodyTwoWords == Body(<< Work("B", "B", FALSE) >>, 1,
                     << Trend("X", "B", "1"), Trend("A", "B", "2") >>, NoOriginal)

SaveBodies == {BodyTwoWorks, BodyTwoWords}
SaveIssues == {1, 2}
SaveTrendArgs == {<<>>, BodyTwoWords.trend_words}

OldWorkRow(issue, name, withTrend) ==
    [issue |-> issue, name |-> name, withTrend |-> withTrend, query |-> "old",
     ref |-> 9, one_hour |-> 9, full |-> 9, end_time |-> "t"]
OldTrendRow(issue, name, word) ==
    [issue |-> issue, name |-> name, word |-> word, rank |-> "", ref |-> 9,
     one_hour |-> 9, full |-> 9, end_time |-> "t"]

\* What the two files hold before the first save: nothing, something that
\* cannot be read, or rows of earlier saves in no particular order.
PriorTables ==
    { << Table(<<>>), Table(<<>>) >>,
      << Unreadable, Unreadable >>,
      << Table(<< OldWorkRow(2, "B", TRUE), OldWorkRow(1, "A", FALSE),
                  OldWorkRow(1, "A", FALSE) >>),
         Table(<< OldTrendRow(2, "A", "X"), OldTrendRow(1, "B", "Y"),
                  OldTrendRow(1, "B", "Z") >>) >> }

Completed(body, outcome) ==
    LET results == RunResults(body, outcome) IN
    /\ analysis_results = Some(results)
    /\ analysis_progress = [current |-> Len(results), total |-> Len(results),
                            status |-> "completed", message |-> MsgDone]
    /\ analysis_lock = 0
    /\ req = [r \in Reqs |-> NewReq]
    /\ worker = [r \in Reqs |-> NoWorker]
    /\ resp = NoResp

InitSave ==
    /\ \E body \in SaveBodies, outcome \in FetchOutcomes : Completed(body, outcome)
    /\ \E prior \in PriorTables : work_csv = prior[1] /\ trend_csv = prior[2]

NextSave ==
    \/ \E body \in SaveBodies, outcome \in FetchOutcomes : CompletedRun(body, outcome)
    \/ \E issue \in SaveIssues, tw \in SaveTrendArgs : SaveToCsv(issue, tw)

SpecSave == InitSave /\ [][NextSave]_vars

\* The same, from tables that do not exist yet.
InitFresh ==
    /\ \E body \in SaveBodies, outcome \in FetchOutcomes : Completed(body, outcome)
    /\ work_csv = Table(<<>>)
    /\ trend_csv = Table(<<>>)

SpecFresh == InitFresh /\ [][NextSave]_vars

\* ------------------------------------------------------------------ SpecApp
\* The run_analysis that app.py defines for itself and start_analysis
\* launches: the same thread body with a planner of its own.
\* One pass of its counting loop.
AppWorkTaskCount(queries, trend_words_data, original_queries, display_name) ==
    IF DictGet(queries, display_name).isTrend THEN 1
    ELSE IF TrendsOf(trend_words_data, display_name) # <<>> THEN 2 ELSE 1

\* total_tasks
AppTotalTasks(queries, trend_words_data, original_queries) ==
    LET count(n) == AppWorkTaskCount(queries, trend_words_data, original_queries, n)
        names == DictKeys(queries)
    IN SumSeq([i \in 1..Len(names) |-> count(names[i])])

\* The analyze_word calls one pass of its execution loop makes.
AppWorkTasks(queries, trend_words_data, original_queries, display_name) ==
    LET q == DictGet(queries, display_name)
        trends == TrendsOf(trend_words_data, display_name)
        orig   == OriginalElements(original_queries, queries, display_name)
        new_trends == NewTrends(trends, orig)
    IN IF q.isTrend
       THEN << Task(display_name, q.query, TRUE, FALSE, <<>>, FALSE, "") >>
       ELSE IF new_trends # <<>>
            THEN << Task(display_name, build_query_from_list(orig), FALSE,
                         FALSE, <<>>, FALSE, "original"),
                    Task(display_name, q.query, FALSE, TRUE, new_trends,
                         FALSE, "with trend") >>
            ELSE << Task(display_name, q.query, FALSE, FALSE, <<>>, FALSE, "") >>

AppRunTasks(queries, trend_words_data, original_queries) ==
    LET tasks(n) == AppWorkTasks(queries, trend_words_data, original_queries, n)
        names == DictKeys(queries)
    IN Flatten([i \in 1..Len(names) |-> tasks(names[i])])

AppTasksOf(body) ==
    AppRunTasks(EffectiveQueries(body), body.trend_words, body.original_queries)

AppTotalOf(body) ==
    AppTotalTasks(EffectiveQueries(body), body.trend_words, body.original_queries)

\* Everything up to analysis_progress["total"] = total_tasks.
AppSetup(w) ==
    LET body == req[w].body IN
    /\ worker[w].pc = "setup"
    /\ IF ~body.wellformed
       THEN /\ worker' = [worker EXCEPT ![w].pc = "except", ![w].err = "malformed"]
            /\ UNCHANGED analysis_progress
       ELSE IF get_date_from_issue_number(body.issue) = None
       THEN /\ worker' = [worker EXCEPT ![w].pc = "except", ![w].err = "absent"]
            /\ UNCHANGED analysis_progress
       ELSE /\ analysis_progress' = [analysis_progress EXCEPT !.total = AppTotalOf(body)]
            /\ worker' = [worker EXCEPT
                 ![w].pc = IF AppTasksOf(body) = <<>> THEN "publish" ELSE "current"]
    /\ UNCHANGED analysis_results
    /\ UNCHANGED WorkerFrame

\* analysis_progress["message"] = "処理中: ..."
AppSetMessage(w) ==
    LET task == AppTasksOf(req[w].body)[worker[w].idx] IN
    /\ worker[w].pc = "message"
    /\ worker' = [worker EXCEPT ![w].pc = "analyze"]
    /\ analysis_progress' =
         [analysis_progress EXCEPT !.message = Msg("processing", task.name, task.note)]
    /\ UNCHANGED analysis_results
    /\ UNCHANGED WorkerFrame

\* analyze_word returns and the tagged result is appended to summary_data.
AppAnalyze(w, outcome) ==
    LET tasks == AppTasksOf(req[w].body)
        task == tasks[worker[w].idx]
        result == Result(task, outcome, get_date_from_issue_number(req[w].body.issue)[1])
    IN
    /\ worker[w].pc = "analyze"
    /\ worker' = [worker EXCEPT
         ![w].pc = IF worker[w].idx = Len(tasks) THEN "publish" ELSE "current",
         ![w].summary = Append(@, result),
         ![w].calls = @ + 1,
         ![w].fetched = outcome]
    /\ UNCHANGED << analysis_progress, analysis_results >>
    /\ UNCHANGED WorkerFrame

AppAnalyzeStep(w, outcomes) ==
    worker[w].pc = "analyze" /\ \E outcome \in outcomes : AppAnalyze(w, outcome)

AppWorkerStep(w, outcomes) ==
    \/ AppSetup(w)
    \/ SetCurrent(w)
    \/ AppSetMessage(w)
    \/ AppAnalyzeStep(w, outcomes)
    \/ AnalyzeRaises(w)
    \/ Publish(w)
    \/ SetCompleted(w)
    \/ SetDoneMessage(w)
    \/ SetError(w)
    \/ SetErrorMessage(w)

NextApp == \E w \in Reqs : AppWorkerStep(w, PlanOutcomes)

SpecApp == InitPlan /\ [][NextApp]_vars

\* ------------------------------------------------------------------ SpecDisk
\* Saves next to saves that fail: to_csv raises on one of the two files, or
\* the trend metadata cannot be processed.
\* What a file holds after a to_csv that raised: what it held (it could not
\* be opened), nothing (it was truncated), or a part that cannot be read.
FailedWrite(table) == {table, Table(<<>>), Unreadable}

FailedSave == [op |-> "save", code |-> 500, saved |-> 0, trend_saved |-> 0]

\* df_combined.to_csv raises: the trend part is not reached.
SaveWorkWriteFails ==
    /\ analysis_results # None
    /\ work_csv' \in FailedWrite(work_csv)
    /\ resp' = FailedSave
    /\ UNCHANGED << analysis_progress, analysis_results, analysis_lock, req, worker,
                    trend_csv >>

\* The work table has been written; then an entry of trend_words_data has no
\* .get (the trend file is not touched), or df_trend_combined.to_csv raises.
SaveTrendFails(issue_number, trend_words_data) ==
    /\ analysis_results # None
    /\ trend_words_data # <<>>
    /\ work_csv' = SaveWorkTable(work_csv, analysis_results[1], issue_number)
    /\ trend_csv' \in
          IF NewTrendRows(analysis_results[1], issue_number, trend_words_data) # <<>>
          THEN FailedWrite(trend_csv)
          ELSE {trend_csv}
    /\ resp' = FailedSave
    /\ UNCHANGED << analysis_progress, analysis_results, analysis_lock, req, worker >>

NextDisk ==
    \/ \E issue \in SaveIssues, tw \in SaveTrendArgs : SaveToCsv(issue, tw)
    \/ SaveWorkWriteFails
    \/ \E issue \in SaveIssues, tw \in SaveTrendArgs : SaveTrendFails(issue, tw)

\* One completed result set is saved over and over.
SpecDisk == InitSave /\ [][NextDisk]_vars

\* ------------------------------------------------------------------ SpecAnalyze
\* One run of one task, over every series of up to MaxPoints points on a grid
\* of instants around the date of issue 1; the date of issue 2 is a minute
\* off the grid.
AnalyzeTimes == {-59, -44, -14, 1, 46, 61, 76}
AnalyzeCounts == {0, 1, 2}
AnalyzePoints == {Point(t, c) : t \in AnalyzeTimes, c \in AnalyzeCounts}
AnalyzeSeries == SeqsUpTo(AnalyzePoints, MaxPoints)

InitAnalyze == \E issue \in issue_date_mapping : Started([BodyPlain EXCEPT !.issue = issue])

NextAnalyze == \E w \in Reqs : WorkerStep(w, AnalyzeSeries)

SpecAnalyze == InitAnalyze /\ [][NextAnalyze]_vars

\* ------------------------------------------------------------------ properties
\* A request has been accepted and its run has not yet set a terminal status.
Active(r) ==
    \/ req[r].pc \in {"reset_progress", "reset_results", "spawn"}
    \/ worker[r].pc \in {"setup", "current", "message", "analyze", "publish",
                         "completed", "except"}

\* C1: under every interleaving of start requests at most one accepted run is
\* short of its terminal status, a request that saw status running is
\* rejected and launches nothing, and only a request that saw another status
\* is accepted.
C1_OneRunAtATime ==
    /\ Cardinality({r \in Reqs : Active(r)}) <= 1
    /\ \A r \in Reqs :
         /\ req[r].seen = "running" =>
               req[r].reply = "rejected" /\ worker[r].pc = "none" /\ ~Active(r)
         /\ (Active(r) \/ req[r].reply = "started") => req[r].seen \in {"idle", "completed", "error"}

\* A start was rejected while another request's worker is in its task loop.
C1_Witness ==
    \E r, q \in Reqs :
        r # q /\ req[r].reply = "rejected" /\ worker[q].pc = "analyze"

\* C2: a start request handled while status is running ends rejected, and no
\* step of it changes current, total, status, message or the captured results.
C2_RejectedStartTouchesNothing ==
    [][\A r \in Reqs :
         (req[r].pc \in {"new", "check"} /\ req'[r] # req[r]
             /\ analysis_progress.status = "running")
         => /\ analysis_progress' = analysis_progress
            /\ analysis_results' = analysis_results
            /\ worker' = worker
            /\ req[r].pc = "check" => (req'[r].pc = "done" /\ req'[r].reply = "rejected")
      ]_vars

\* A request stands rejected while the active run is past its first task.
C2_Witness ==
    \E r \in Reqs :
        /\ req[r].reply = "rejected"
        /\ analysis_progress.status = "running"
        /\ analysis_progress.current > 0

\* Neither file has been written.
InitialTables == work_csv = Table(<<>>) /\ trend_csv = Table(<<>>)

\* C3: a run of run_analysis that raised, before the loop or at any task,
\* ends with status error and its error message; its results are never set,
\* so no results query answers with a list and no save writes a table.
C3_FailedRunPublishesNothing ==
    \A w \in Reqs :
        worker[w].err # "" =>
            /\ analysis_results = None
            /\ resp.code # 200
            /\ InitialTables
            /\ worker[w].pc \in {"errmsg", "done"} => analysis_progress.status = "error"
            /\ worker[w].pc = "done" =>
                  analysis_progress.message = MsgError(worker[w].err)

\* A run that raised after two tasks had produced results has ended, and a
\* reader has asked since.
C3_Witness ==
    \E w \in Reqs :
        /\ worker[w].pc = "done" /\ worker[w].err = "unexpected"
        /\ worker[w].calls >= 3
        /\ resp = [NoResp EXCEPT !.op = "save", !.code = 404]

\* The results of a list that belong to one work.
ResultsOf(results, name) ==
    LET mine(r) == r.name = name IN SelectSeq(results, mine)

\* The works of the run of request 1 that are not trend-only.
PlainWorks(body) ==
    {n \in Names : InList(n, DictKeys(EffectiveQueries(body)))
                   /\ ~DictGet(EffectiveQueries(body), n).isTrend}

TrendsIn(body, n) == TrendsOf(body.trend_words, n)
OriginalIn(body, n) == OriginalElements(body.original_queries, EffectiveQueries(body), n)

NonePresent(body, n) == \A i \in 1..Len(TrendsIn(body, n)) :
                            ~InList(TrendsIn(body, n)[i], OriginalIn(body, n))
AllPresent(body, n) == \A i \in 1..Len(TrendsIn(body, n)) :
                            InList(TrendsIn(body, n)[i], OriginalIn(body, n))

\* The count the claim gives a work: 1 without trend words, 2+k with k trend
\* words none of which is an original element, 1+k with k that all are.
ClaimedCount(body, n) ==
    LET k == Len(TrendsIn(body, n))
    IN IF k = 0 THEN 1 ELSE IF NonePresent(body, n) THEN 2 + k ELSE 1 + k

RunCompleted == analysis_progress.status = "completed"

\* C7: for a work that is not trend-only and whose trend words are all absent
\* from, or all present in, its original elements (or that has none), the
\* tasks counted for it and the analyze calls made for it are 2+k, 1+k, 1.
C7_TaskCountPerWork ==
    LET body == req[1].body IN
    (body.wellformed /\ worker[1].pc # "none") =>
      \A n \in PlainWorks(body) :
        (NonePresent(body, n) \/ AllPresent(body, n)) =>
          /\ WorkTaskCount(EffectiveQueries(body), body.trend_words,
                           body.original_queries, n) = ClaimedCount(body, n)
          /\ RunCompleted =>
                Len(ResultsOf(analysis_results[1], n)) = ClaimedCount(body, n)

\* A completed run held a work with two trend words, neither of them an
\* original element, and made four calls for it.
C7_Witness ==
    LET body == req[1].body IN
    /\ RunCompleted
    /\ \E n \in PlainWorks(body) :
          Len(TrendsIn(body, n)) = 2 /\ NonePresent(body, n)
          /\ Len(ResultsOf(analysis_results[1], n)) = 4

\* The scenario of C8: work "A", original elements ["A"], trend words
\* ["A", "X"].
Scenario8 ==
    LET body == req[1].body IN
    /\ body.wellformed
    /\ "A" \in PlainWorks(body)
    /\ OriginalIn(body, "A") = << "A" >>
    /\ TrendsIn(body, "A") = << "A", "X" >>

\* C8 as claimed: the scenario runs exactly three tasks for "A".
C8_ThreeTasks ==
    (Scenario8 /\ RunCompleted) =>
        LET rs == ResultsOf(analysis_results[1], "A") IN
        /\ Len(rs) = 3
        /\ rs[1].query = "A" /\ ~rs[1].withTrendWord
        /\ rs[2].trendWords = << "X" >> /\ ~rs[2].isTrendIndividual
        /\ rs[3].query = "X" /\ rs[3].isTrendIndividual

\* C8, amended: the scenario runs four tasks for "A": the plain query "A", the
\* combined query tagged trendWords = ["X"], and one individual query for
\* each of the two trend words, "A" then "X"; four are counted in the total.
C8_FourTasks ==
    (Scenario8 /\ worker[1].pc # "none") =>
        /\ WorkTaskCount(EffectiveQueries(req[1].body), req[1].body.trend_words,
                         req[1].body.original_queries, "A") = 4
        /\ RunCompleted =>
             LET rs == ResultsOf(analysis_results[1], "A")
                 q == DictGet(EffectiveQueries(req[1].body), "A").query IN
             /\ Len(rs) = 4
             /\ rs[1].query = "A" /\ ~rs[1].withTrendWord /\ rs[1].trendWords = <<>>
                /\ ~rs[1].isTrendIndividual
             /\ rs[2].query = q /\ rs[2].withTrendWord /\ rs[2].trendWords = << "X" >>
                /\ ~rs[2].isTrendIndividual
             /\ rs[3].query = "A" /\ rs[3].withTrendWord /\ rs[3].trendWords = << "A" >>
                /\ rs[3].isTrendIndividual
             /\ rs[4].query = "X" /\ rs[4].withTrendWord /\ rs[4].trendWords = << "X" >>
                /\ rs[4].isTrendIndividual

\* The scenario has run to completion.
C8_Witness == Scenario8 /\ RunCompleted /\ Len(analysis_results[1]) >= 4

\* The sum over the works of the run of the count each is given.
PlannedTotal(body) ==
    LET qs == EffectiveQueries(body)
        F[i \in 0..Len(DictKeys(qs))] ==
            IF i = 0 THEN 0
            ELSE F[i - 1] + WorkTaskCount(qs, body.trend_words, body.original_queries,
                                          DictKeys(qs)[i])
    IN F[Len(DictKeys(qs))]

\* C9: once the loop is entered the total is the sum of the per-work counts
\* and no call has been made before it is set; a run that completes ends
\* with current = total = the number of captured results.
C9_TotalMatchesResults ==
    LET body == req[1].body IN
    /\ worker[1].pc \in {"current", "message", "analyze", "publish", "completed",
                         "donemsg"}
          => analysis_progress.total = PlannedTotal(body)
    /\ worker[1].pc = "setup" => worker[1].calls = 0
    /\ RunCompleted =>
          /\ analysis_progress.current = analysis_progress.total
          /\ analysis_progress.total = Len(analysis_results[1])
          /\ analysis_progress.total = worker[1].calls

\* A run of two works and five tasks has completed.
C9_Witness ==
    /\ RunCompleted
    /\ Len(DictKeys(EffectiveQueries(req[1].body))) = 2
    /\ Len(analysis_results[1]) = 5

\* The issue of the request is not in the mapping.
LookupAbsent(body) == body.wellformed /\ body.issue \notin issue_date_mapping

\* C10: when the issue has no date the run makes no analyze call and sets no
\* total, and it ends with status error, the message of the failed lookup,
\* current = total = 0 and no result list.
C10_AbsentIssueFailsFast ==
    LookupAbsent(req[1].body) =>
        /\ worker[1].calls = 0 /\ worker[1].summary = <<>>
        /\ analysis_progress.current = 0 /\ analysis_progress.total = 0
        /\ analysis_results = None
        /\ worker[1].pc # "setup" => worker[1].err = "absent"
        /\ worker[1].pc \in {"errmsg", "done"} => analysis_progress.status = "error"
        /\ worker[1].pc = "done" => analysis_progress.message = MsgError("absent")

\* The run of a request with an unknown issue and two works has ended.
C10_Witness ==
    /\ LookupAbsent(req[1].body)
    /\ Len(req[1].body.queries) = 2
    /\ worker[1].pc = "done"
    /\ analysis_progress.status = "error"

\* ------------------------------------------------------------------ saves
Range(rows) == {rows[i] : i \in 1..Len(rows)}
Count(row, rows) == Cardinality({i \in 1..Len(rows) : rows[i] = row})
Unique(keys) == \A i, j \in 1..Len(keys) : keys[i] = keys[j] => i = j

\* The rows the trend part of a save builds: none without trend metadata.
BuiltTrendRows(results, issue_number, trend_words_data) ==
    IF trend_words_data # <<>>
    THEN NewTrendRows(results, issue_number, trend_words_data)
    ELSE <<>>

\* C4: from every content of the two tables, and for every issue number and
\* trend metadata, saving the captured results a second time leaves each
\* table exactly as the first save left it.
C4_SaveTwiceIsSaveOnce ==
    analysis_results # None =>
      \A issue \in SaveIssues, tw \in SaveTrendArgs :
        LET results == analysis_results[1]
            work1 == SaveWorkTable(work_csv, results, issue)
            trend1 == SaveTrendTable(trend_csv, results, issue, tw)
        IN /\ SaveWorkTable(work1, results, issue) = work1
           /\ SaveTrendTable(trend1, results, issue, tw) = trend1

\* Both tables hold rows of an earlier save under keys that the captured
\* results collide with, next to rows under other keys.
C4_Witness ==
    /\ resp.op = "save" /\ resp.code = 200
    /\ \E issue \in SaveIssues :
         LET new_rows == NewWorkRows(analysis_results[1], issue)
             trend_rows == NewTrendRows(analysis_results[1], issue,
                                        BodyTwoWords.trend_words)
         IN /\ \E row \in Range(work_csv.rows) :
                  WorkKey(row) \in WorkKeys(new_rows) /\ Count(row, new_rows) = 0
            /\ \E row \in Range(work_csv.rows) : WorkKey(row) \notin WorkKeys(new_rows)
            /\ \E row \in Range(trend_csv.rows) :
                  TrendKey(row) \in TrendKeys(trend_rows)
                  /\ Count(row, trend_rows) = 0
            /\ \E row \in Range(trend_csv.rows) :
                  TrendKey(row) \notin TrendKeys(trend_rows)

\* after holds the new rows in place of the rows of before that share a key
\* with one of them, and every other row of before as often as before did.
WorkRowsReplaced(before, after, new_rows) ==
    /\ Len(after) = Len(new_rows)
          + Cardinality({i \in 1..Len(before) :
                            WorkKey(before[i]) \notin WorkKeys(new_rows)})
    /\ \A row \in Range(before) \cup Range(after) \cup Range(new_rows) :
         Count(row, after) = IF WorkKey(row) \in WorkKeys(new_rows)
                             THEN Count(row, new_rows)
                             ELSE Count(row, before)

TrendRowsReplaced(before, after, new_rows) ==
    /\ Len(after) = Len(new_rows)
          + Cardinality({i \in 1..Len(before) :
                            TrendKey(before[i]) \notin TrendKeys(new_rows)})
    /\ \A row \in Range(before) \cup Range(after) \cup Range(new_rows) :
         Count(row, after) = IF TrendKey(row) \in TrendKeys(new_rows)
                             THEN Count(row, new_rows)
                             ELSE Count(row, before)

\* C5: every save, after whatever saves came before it, leaves in each table
\* the rows it built in place of the existing rows with their keys, and every
\* existing row with another key as it was.
C5_SaveReplacesCollidingRowsOnly ==
    [][\A issue \in SaveIssues, tw \in SaveTrendArgs :
         (analysis_results # None /\ SaveToCsv(issue, tw)) =>
            /\ WorkRowsReplaced(work_csv.rows, work_csv'.rows,
                                NewWorkRows(analysis_results[1], issue))
            /\ TrendRowsReplaced(trend_csv.rows, trend_csv'.rows,
                                 BuiltTrendRows(analysis_results[1], issue, tw))
      ]_vars

\* After saves for both issues the work table holds, for one work, a row of
\* the table's first content and a row a save wrote under the other issue,
\* and the trend table a row of its first content next to saved ones.
C5_Witness ==
    /\ resp.op = "save" /\ resp.code = 200
    /\ \E i, j \in 1..Len(work_csv.rows) :
         /\ work_csv.rows[i].query = "old" /\ work_csv.rows[j].query # "old"
         /\ work_csv.rows[i].name = work_csv.rows[j].name
         /\ work_csv.rows[i].issue # work_csv.rows[j].issue
    /\ \E i, j \in 1..Len(trend_csv.rows) :
         /\ trend_csv.rows[i].ref = 9 /\ trend_csv.rows[j].ref # 9
         /\ trend_csv.rows[i].issue = trend_csv.rows[j].issue

\* A trend row's key extended by its trend word.
TrendKeyWithWord(row) == << row.issue, row.name, row.word >>

\* C6 as claimed: from empty tables, no two rows of the work table share
\* (issue, work, withTrendWord) and no two rows of the trend table share
\* (issue, work).
C6_OneRowPerKey ==
    /\ Unique([i \in 1..Len(work_csv.rows) |-> WorkKey(work_csv.rows[i])])
    /\ Unique([i \in 1..Len(trend_csv.rows) |-> TrendKey(trend_csv.rows[i])])

\* C6, amended: from empty tables, no two rows of the work table share
\* (issue, work, withTrendWord); the trend table holds one row for each trend
\* word of a work, so its rows may share (issue, work), and no two of them
\* share (issue, work, trend word) when the trend words given for a work are
\* distinct.
C6_OneRowPerKeyAndWord ==
    /\ Unique([i \in 1..Len(work_csv.rows) |-> WorkKey(work_csv.rows[i])])
    /\ Unique([i \in 1..Len(trend_csv.rows) |-> TrendKeyWithWord(trend_csv.rows[i])])

\* Saves for both issues have left two rows for one (issue, work) in the
\* trend table and rows with and without trend words in the work table.
C6_Witness ==
    /\ \E i, j \in 1..Len(trend_csv.rows) :
         i # j /\ TrendKey(trend_csv.rows[i]) = TrendKey(trend_csv.rows[j])
    /\ {row.issue : row \in Range(trend_csv.rows)} = SaveIssues
    /\ {row.issue : row \in Range(work_csv.rows)} = SaveIssues
    /\ \E row \in Range(work_csv.rows) : row.withTrend

\* ------------------------------------------------------------------ analyses
\* The call of analyze_word that worker w has just returned from: the list it
\* fetched, the reference instant and the result it appended.
Analyzed(w) == worker[w].pc \in {"current", "publish"} /\ worker[w].summary # <<>>
SeriesOf(w) == worker[w].fetched
InstantOf(w) == req[w].body.issue
ResultOf(w) == worker[w].summary[Len(worker[w].summary)]

\* The points at or after the reference instant, and those among them that
\* do not exceed a baseline (given in twelfths).
TailOf(S, R) == {i \in 1..Len(S) : S[i].from_date >= R}
DropsOf(S, R, B) == {i \in TailOf(S, R) : Scale * S[i].count <= B}
LastStart(S, R) ==
    CHOOSE t \in {S[i].from_date : i \in TailOf(S, R)} :
        \A i \in TailOf(S, R) : S[i].from_date <= t
FirstStart(S, R) ==
    CHOOSE t \in {S[i].from_date : i \in TailOf(S, R)} :
        \A i \in TailOf(S, R) : S[i].from_date >= t

\* The count of the first point that starts o minutes before R, 0 without one.
OffsetCount(S, R, o) ==
    LET hits == {i \in 1..Len(S) : S[i].from_date = R - o}
    IN IF hits = {} THEN 0 ELSE S[CHOOSE i \in hits : \A j \in hits : i <= j].count
OffsetsPresent(S, R) ==
    {o \in {60, 45, 30, 15} : \E i \in 1..Len(S) : S[i].from_date = R - o}

\* C14: the baseline of a non-empty series is the mean of the counts found at
\* exactly R-60, R-45, R-30 and R-15 (the first point at each), and 0 when
\* none of the four is a point; counts 2, 4, 6, 8 give 5.
C14_BaselineIsMeanOfPresentOffsets ==
    /\ \A w \in Reqs :
         (Analyzed(w) /\ SeriesOf(w) # <<>>) =>
            LET S == SeriesOf(w)
                R == InstantOf(w)
                r == ResultOf(w) IN
            /\ r.ref # None
            /\ OffsetsPresent(S, R) = {} => r.ref[1] = 0
            /\ r.ref[1] * Cardinality(OffsetsPresent(S, R))
                 = Scale * (OffsetCount(S, R, 60) + OffsetCount(S, R, 45)
                            + OffsetCount(S, R, 30) + OffsetCount(S, R, 15))
    /\ reference_count(<< Point(-60, 2), Point(-45, 4), Point(-30, 6), Point(-15, 8),
                          Point(0, 20) >>, 0) = 5 * Scale

\* Two of the four instants are points, with different counts.
C14_Witness ==
    \E w \in Reqs :
        /\ Analyzed(w)
        /\ Cardinality(OffsetsPresent(SeriesOf(w), InstantOf(w))) = 2
        /\ ResultOf(w).ref = Some(18)

\* C15: a non-empty series without a point at or after R has the 'no data'
\* window end and both sums 0.
C15_NoTailNoWindow ==
    \A w \in Reqs :
        (Analyzed(w) /\ SeriesOf(w) # <<>> /\ TailOf(SeriesOf(w), InstantOf(w)) = {}) =>
            /\ ResultOf(w).end_time = "nodata"
            /\ ResultOf(w).one_hour = Some(0)
            /\ ResultOf(w).full = Some(0)

\* Both points of a series lie before R, one of them above the baseline.
C15_Witness ==
    \E w \in Reqs :
        /\ Analyzed(w) /\ Len(SeriesOf(w)) = 2
        /\ TailOf(SeriesOf(w), InstantOf(w)) = {}
        /\ \E i \in 1..2 : Scale * SeriesOf(w)[i].count > ResultOf(w).ref[1]

\* The bucket intervals, in minutes, that the window rule is tried with.
Intervals == {1, 15, 30}

C18_WindowEndBounds ==
    \A w \in Reqs :
        (Analyzed(w) /\ SeriesOf(w) # <<>>) =>
            LET S == SeriesOf(w)
                R == InstantOf(w)
                r == ResultOf(w) IN
            /\ (r.end_time = "nodata") <=> (TailOf(S, R) = {})
            /\ \A I \in Intervals :
                 LET end == actual_sum_end_datetime(S, R, r.ref[1], I) IN
                 /\ (end = None) <=> (TailOf(S, R) = {})
                 /\ end # None => end[1] >= FirstStart(S, R)
                 /\ I = INTERVAL_MINUTES =>
                       r.end_time = IF end = None THEN "nodata"
                                    ELSE format_datetime(end[1])

\* The window ends where its first tail point starts.
C18_Witness ==
    \E w \in Reqs :
        LET S == SeriesOf(w)
            R == InstantOf(w) IN
        /\ Analyzed(w) /\ TailOf(S, R) # {}
        /\ ResultOf(w).end_time = format_datetime(FirstStart(S, R))

\* The sum of max(0, count - baseline), in twelfths, over the tail points
\* that start before hi.
ExcessBefore(S, R, B, hi) ==
    LET F[i \in 0..Len(S)] ==
            IF i = 0 THEN 0
            ELSE F[i - 1]
                 + (IF /\ S[i].from_date >= R
                       /\ S[i].from_date < hi
                       /\ Scale * S[i].count > B
                    THEN Scale * S[i].count - B ELSE 0)
    IN F[Len(S)]

\* C19: both sums are sums of max(0, count - baseline): the one-hour sum
\* over the tail points before R+1h, the full sum over the tail points
\* before the window end, and 0 without a window end.
C19_SameSummationPolicy ==
    \A w \in Reqs :
        (Analyzed(w) /\ SeriesOf(w) # <<>>) =>
            LET S == SeriesOf(w)
                R == InstantOf(w)
                r == ResultOf(w)
                end == actual_sum_end_datetime(S, R, r.ref[1], INTERVAL_MINUTES) IN
            /\ r.one_hour = Some(ExcessBefore(S, R, r.ref[1], R + 60))
            /\ r.full = Some(IF end = None THEN 0
                             ELSE ExcessBefore(S, R, r.ref[1], end[1]))

\* Both sums are positive and the full sum reaches past the first hour.
C19_Witness ==
    \E w \in Reqs :
        /\ Analyzed(w) /\ SeriesOf(w) # <<>>
        /\ ResultOf(w).one_hour[1] > 0
        /\ ResultOf(w).full[1] > ResultOf(w).one_hour[1]

\* The display points of the points of S that start in [lo, hi) with a count
\* above the baseline, in the order of S.
DisplayRange(S, B, lo, hi) ==
    LET shown(p) == p.from_date >= lo /\ p.from_date < hi /\ Scale * p.count > B
        kept == SelectSeq(S, shown)
    IN [i \in 1..Len(kept) |-> [x |-> format_datetime(kept[i].from_date),
                                y |-> kept[i].count]]

RangesComplete(w) ==
    LET S == SeriesOf(w)
        R == InstantOf(w)
        r == ResultOf(w)
        end == actual_sum_end_datetime(S, R, r.ref[1], INTERVAL_MINUTES) IN
    /\ r.one_hour_range_data = DisplayRange(S, r.ref[1], R, R + 60)
    /\ r.after_one_hour_range_data
         = IF end = None THEN <<>> ELSE DisplayRange(S, r.ref[1], R + 60, end[1])

\* C20 as claimed: chart_data and both range sequences hold only points above
\* the baseline, and each range sequence holds all of those in its range.
C20_DisplayOnlyAboveBaseline ==
    \A w \in Reqs :
        (Analyzed(w) /\ SeriesOf(w) # <<>>) =>
            /\ \A k \in 1..Len(ResultOf(w).chart_data) :
                  Scale * ResultOf(w).chart_data[k].y > ResultOf(w).ref[1]
            /\ RangesComplete(w)

\* C20, amended: chart_data holds every point of the series, whatever its
\* count; the two range sequences hold exactly the points of their range
\* that are above the baseline.
C20_ChartRawRangesFiltered ==
    \A w \in Reqs :
        (Analyzed(w) /\ SeriesOf(w) # <<>>) =>
            /\ ResultOf(w).chart_data
                 = [i \in 1..Len(SeriesOf(w)) |->
                      [x |-> format_datetime(SeriesOf(w)[i].from_date),
                       y |-> SeriesOf(w)[i].count]]
            /\ RangesComplete(w)

\* A point at the reference instant is at the baseline and a point after the
\* first hour is above it: chart_data lists both, the later range only one.
C20_Witness ==
    \E w \in Reqs :
        /\ Analyzed(w) /\ Len(ResultOf(w).chart_data) = 2
        /\ ResultOf(w).one_hour_range_data = <<>>
        /\ Len(ResultOf(w).after_one_hour_range_data) = 1

\* ------------------------------------------------------------------ empty fetches
\* C11: a fetch that returns no point gives a result whose baseline and sums
\* are null and whose window end is 'no data', raises nothing, and the run
\* goes on: a completed run holds one result per planned task, whichever of
\* its fetches came back empty.
C11_EmptyFetchIsNullResult ==
    /\ \A w \in Reqs :
         /\ (Analyzed(w) /\ SeriesOf(w) = <<>>) =>
               /\ ResultOf(w).ref = None
               /\ ResultOf(w).one_hour = None
               /\ ResultOf(w).full = None
               /\ ResultOf(w).end_time = "nodata"
               /\ worker[w].err = ""
         /\ (worker[w].pc = "except" /\ worker[w].err = "unexpected") =>
               worker[w].fetched # <<>>
    /\ RunCompleted =>
         /\ Len(analysis_results[1]) = PlannedTotal(req[1].body)
         /\ \A i \in 1..Len(analysis_results[1]) :
              analysis_results[1][i].ref = None =>
                 /\ analysis_results[1][i].one_hour = None
                 /\ analysis_results[1][i].full = None
                 /\ analysis_results[1][i].end_time = "nodata"

\* A run of four tasks has completed; an earlier fetch came back empty and a
\* later one did not.
C11_Witness ==
    /\ RunCompleted
    /\ Len(analysis_results[1]) = 4
    /\ \E i, j \in 1..4 :
         /\ i < j
         /\ analysis_results[1][i].ref = None
         /\ analysis_results[1][j].ref # None

\* ------------------------------------------------------------------ readers
\* C12 as claimed: GET /api/results answers with the result list only while
\* the status is completed.
C12_ResultsOnlyWhenCompleted ==
    [][(GetResults /\ resp'.code = 200) => analysis_progress.status = "completed"]_vars

\* The results of a list that the two tables take rows from.
WorkResults(results) ==
    {i \in 1..Len(results) : ~(results[i].isTrend \/ results[i].isTrendIndividual)}
TrendResults(results) ==
    {i \in 1..Len(results) : results[i].isTrendIndividual
                             /\ Len(results[i].trendWords) = 1}

\* C13 as claimed: for every trend metadata argument a save builds one
\* work-summary row per result that is neither isTrend nor isTrendIndividual
\* and one trend-summary row per isTrendIndividual result with one trend
\* word, and no other row.
C13_SaveBuildsRowsOfMatchingResults ==
    [][\A issue \in SaveIssues, tw \in SaveTrendArgs :
         (SaveToCsv(issue, tw) /\ resp'.code = 200) =>
            LET results == analysis_results[1] IN
            /\ resp'.saved = Cardinality(WorkResults(results))
            /\ resp'.trend_saved = Cardinality(TrendResults(results))
            /\ \A i \in WorkResults(results) :
                 \E k \in 1..Len(work_csv'.rows) :
                    /\ work_csv'.rows[k].issue = issue
                    /\ work_csv'.rows[k].name = results[i].name
                    /\ work_csv'.rows[k].query = results[i].query
            /\ \A i \in TrendResults(results) :
                 \E k \in 1..Len(trend_csv'.rows) :
                    /\ trend_csv'.rows[k].issue = issue
                    /\ trend_csv'.rows[k].name = results[i].name
                    /\ trend_csv'.rows[k].word = results[i].trendWords[1]
                    /\ trend_csv'.rows[k].end_time = results[i].end_time]_vars

\* ------------------------------------------------------------------ task order
\* The trend words of a work that its original elements do not hold.
NewIn(body, n) ==
    LET fresh(t) == ~InList(t, OriginalIn(body, n))
    IN SelectSeq(TrendsIn(body, n), fresh)

NameIndex(names, n) == CHOOSE i \in 1..Len(names) : names[i] = n
Tags(r) == << r.isTrend, r.withTrendWord, r.trendWords, r.isTrendIndividual >>

\* The results the run of request 1 has produced so far.
ResultsSoFar ==
    IF analysis_results # None THEN analysis_results[1] ELSE worker[1].summary

\* C21: results come one at a time, work by work in the order of the input;
\* for a work that is not trend-only and has a trend word outside its
\* original elements they are, in this order, the query of the original
\* elements (withTrendWord false, no trend words), the base query
\* (withTrendWord true, the new trend words), and one per trend word in the
\* order supplied (the word alone, withTrendWord true, that word,
\* isTrendIndividual true).
C21_TaskOrderAndTags ==
    LET body == req[1].body
        qs == EffectiveQueries(body)
        names == DictKeys(qs)
        results == ResultsSoFar IN
    (body.wellformed /\ worker[1].pc # "none") =>
      /\ \A i, j \in 1..Len(results) :
            i < j => NameIndex(names, results[i].name) <= NameIndex(names, results[j].name)
      /\ worker[1].pc \in {"current", "message", "analyze", "publish"} =>
            Len(worker[1].summary) = worker[1].calls
      /\ \A n \in PlainWorks(body) :
            NewIn(body, n) # <<>> =>
              LET rs == ResultsOf(results, n)
                  trends == TrendsIn(body, n) IN
              /\ RunCompleted => Len(rs) = 2 + Len(trends)
              /\ Len(rs) <= 2 + Len(trends)
              /\ Len(rs) >= 1 =>
                    /\ rs[1].query = build_query_from_list(OriginalIn(body, n))
                    /\ Tags(rs[1]) = << FALSE, FALSE, <<>>, FALSE >>
              /\ Len(rs) >= 2 =>
                    /\ rs[2].query = DictGet(qs, n).query
                    /\ Tags(rs[2]) = << FALSE, TRUE, NewIn(body, n), FALSE >>
              /\ \A m \in 1..(Len(rs) - 2) :
                    /\ rs[2 + m].query = trends[m]
                    /\ Tags(rs[2 + m]) = << FALSE, TRUE, << trends[m] >>, TRUE >>

\* A completed run of two works, the first with two trend words of which one
\* is among its original elements.
C21_Witness ==
    LET body == req[1].body IN
    /\ RunCompleted
    /\ Len(DictKeys(EffectiveQueries(body))) = 2
    /\ \E n \in PlainWorks(body) :
         /\ Len(TrendsIn(body, n)) = 2
         /\ Len(NewIn(body, n)) = 1
         /\ Len(ResultsOf(analysis_results[1], n)) = 4
         /\ analysis_results[1][1].name = n
         /\ Len(analysis_results[1]) = 5

\* ------------------------------------------------------------------ failing files
\* The rows of a table are the work rows of a result list under an issue.
OnlyWorkRowsOf(table, results, issue) ==
    /\ table.readable
    /\ Len(table.rows) = Cardinality(WorkResults(results))
    /\ \A k \in 1..Len(table.rows) :
          /\ table.rows[k].issue = issue
          /\ \E i \in WorkResults(results) :
                /\ table.rows[k].name = results[i].name
                /\ table.rows[k].query = results[i].query
                /\ table.rows[k].withTrend = results[i].withTrendWord
OnlyTrendRowsOf(table, results, issue) ==
    /\ table.readable
    /\ Len(table.rows) = Cardinality(TrendResults(results))
    /\ \A k \in 1..Len(table.rows) :
          /\ table.rows[k].issue = issue
          /\ \E i \in TrendResults(results) :
                /\ table.rows[k].name = results[i].name
                /\ table.rows[k].word = results[i].trendWords[1]

\* C22: a save over a table that cannot be read goes through: the table
\* becomes the new rows alone and the save answers with its row counts; a
\* save in which a write raises answers with an error.
C22_UnreadableTableIsEmpty ==
    [][\A issue \in SaveIssues, tw \in SaveTrendArgs :
         /\ (SaveToCsv(issue, tw) /\ analysis_results # None) =>
              LET results == analysis_results[1] IN
              /\ resp'.code = 200
              /\ resp'.saved = Cardinality(WorkResults(results))
              /\ ~work_csv.readable => OnlyWorkRowsOf(work_csv', results, issue)
              /\ (~trend_csv.readable /\ resp'.trend_saved > 0) =>
                    /\ OnlyTrendRowsOf(trend_csv', results, issue)
                    /\ resp'.trend_saved = Cardinality(TrendResults(results))
         /\ (SaveWorkWriteFails \/ SaveTrendFails(issue, tw)) => resp'.code = 500]_vars

\* A save over two unreadable files has answered with its counts: the work
\* table holds the new rows alone, the trend file was not needed.
C22_Witness ==
    /\ resp.op = "save" /\ resp.code = 200 /\ resp.saved = 2
    /\ \E issue \in SaveIssues : OnlyWorkRowsOf(work_csv, analysis_results[1], issue)
    /\ ~trend_csv.readable

\* C30 as claimed: a save that fails while it processes or writes the trend
\* table leaves the work table as it was before the save.
C30_FailedSaveChangesNoTable ==
    [][\A issue \in SaveIssues, tw \in SaveTrendArgs :
         SaveTrendFails(issue, tw) => work_csv' = work_csv]_vars

\* ------------------------------------------------------------------ lifecycle
StatusEdges == { << "idle", "running" >>, << "running", "completed" >>,
                 << "running", "error" >>, << "completed", "running" >>,
                 << "error", "running" >> }

\* C23: the status moves only along idle -> running, running -> completed,
\* running -> error, completed -> running and error -> running; a terminal
\* status changes only in the reset of an accepted start; and an accepted
\* start leaves its with block with current = 0, total = 0, status running
\* and no results.
C23_StatusLifecycle ==
    [][/\ analysis_progress'.status # analysis_progress.status =>
            << analysis_progress.status, analysis_progress'.status >> \in StatusEdges
       /\ (/\ analysis_progress.status \in {"completed", "error"}
           /\ analysis_progress'.status # analysis_progress.status) =>
             \E r \in Reqs : ResetProgress(r) /\ req[r].seen # "running"
       /\ \A r \in Reqs :
            /\ ResetProgress(r) =>
                 /\ analysis_progress'.current = 0
                 /\ analysis_progress'.total = 0
                 /\ analysis_progress'.status = "running"
            /\ ResetResultsStep(r) =>
                 /\ analysis_progress'.current = 0
                 /\ analysis_progress'.total = 0
                 /\ analysis_progress'.status = "running"
                 /\ analysis_results' = None]_vars

\* A second start has been accepted after the first run completed with
\* results: the state is reset and the results are gone.
C23_Witness ==
    \E r \in Reqs :
        /\ req[r].pc = "spawn" /\ req[r].seen = "completed"
        /\ analysis_progress.status = "running"
        /\ analysis_results = None
        /\ \E w \in Reqs : worker[w].pc = "done" /\ worker[w].calls > 0

\* C24 as claimed: the status is running only while the accepted start or
\* its worker is still on the way to a terminal status.
C24_RunningHasWorker ==
    analysis_progress.status = "running" => \E r \in Reqs : Active(r)

\* Request r has been accepted: it has installed the RunState of its run.
RunStarted(r) ==
    \/ req[r].pc \in {"reset_results", "spawn"}
    \/ req[r].reply \in {"started", "error"}

\* C25 as claimed: a worker writes to RunState only while no later run has
\* been started (requests are served in the order of their numbers).
C25_OnlyOwnWorkerWrites ==
    [][\A w \in Reqs :
         (worker'[w] # worker[w] /\ analysis_progress' # analysis_progress) =>
            ~ \E r \in Reqs : r > w /\ RunStarted(r)]_vars

\* ------------------------------------------------------------------ progress
\* C26 as claimed: while the loop runs, current is the number of results
\* appended so far.
C26_CurrentCountsFinished ==
    worker[1].pc \in {"current", "message", "analyze", "publish"} =>
        analysis_progress.current = Len(worker[1].summary)

\* current is the number of tasks started: the results appended so far, and
\* one more from the increment until the result of that task is appended (or
\* for good, when the task raises).
CurrentCountsStarted ==
    /\ worker[1].pc \in {"current", "publish"} =>
          analysis_progress.current = Len(worker[1].summary)
    /\ worker[1].pc \in {"message", "analyze"} =>
          analysis_progress.current = Len(worker[1].summary) + 1
    /\ (worker[1].pc \in {"except", "errmsg"} /\ worker[1].err = "unexpected") =>
          analysis_progress.current = Len(worker[1].summary) + 1
    /\ RunCompleted => analysis_progress.current = Len(analysis_results[1])

\* C26, amended: current counts the tasks started, not the tasks finished,
\* and never decreases during the run.
C26_CurrentCountsStarted ==
    [][/\ CurrentCountsStarted
       /\ CurrentCountsStarted'
       /\ analysis_progress'.current >= analysis_progress.current]_vars

\* The second task is being analysed: one result is appended, current is 2.
C26_Witness ==
    /\ worker[1].pc = "analyze"
    /\ Len(worker[1].summary) = 1
    /\ analysis_progress.current = 2

\* C27 as claimed: a run of app.py's run_analysis that completes ends with
\* current = total = the number of results.
C27_AppTotalMatchesResults ==
    RunCompleted =>
        /\ analysis_progress.current = analysis_progress.total
        /\ analysis_progress.total = Len(analysis_results[1])

\* ------------------------------------------------------------------ window end
\* The tail points at or below the baseline that start at R+1h or later.
LateDropsOf(S, R, B) == {i \in DropsOf(S, R, B) : S[i].from_date >= R + 60}
FirstLateDrop(S, R, B) ==
    CHOOSE t \in {S[i].from_date : i \in LateDropsOf(S, R, B)} :
        \A i \in LateDropsOf(S, R, B) : S[i].from_date >= t

IntervalSeconds == {30, 60, 900, 1800}

\* C29 as claimed: for every non-empty series and positive bucket interval,
\* when the window end is not null the one-hour range lies within the full
\* range, 0 <= one_hour_sum <= full_sum, and full_sum is one_hour_sum plus
\* the excess over the baseline of the after-one-hour range.
C29_OneHourWithinFull ==
    \A w \in Reqs :
        (Analyzed(w) /\ SeriesOf(w) # <<>>) =>
            \A seconds \in IntervalSeconds :
                LET S == SeriesOf(w)
                    R == InstantOf(w)
                    B == ResultOf(w).ref[1]
                    end == actual_sum_end_datetime(S, R, B, interval_minutes_of(seconds))
                    one == ExcessSum(df_one_hour_range(S, R), B)
                    full == ExcessSum(df_sum_range(S, R, end), B)
                    after == ExcessSum(df_after_one_hour_range(S, R, end), B) IN
                end # None =>
                    /\ Range(df_one_hour_range(S, R)) \subseteq Range(df_sum_range(S, R, end))
                    /\ 0 <= one /\ one <= full
                    /\ full = one + after

====
